---- MODULE Spec2Model ----
(***************************************************************************)
(* The read path of the PostgreSQL span store (pgstore/reader.go):         *)
(* GetTrace, FindTraceIDs, FindTraces and GetDependencies over the tables  *)
(* services, operations, spans and span_refs.                              *)
(*                                                                         *)
(* The tables are read-only facts; the reader's state is the call in       *)
(* progress, its position in the FindTraces loop, and what it returns.     *)
(***************************************************************************)
EXTENDS Integers, Sequences, FiniteSets, TLC

\* ------------------------------------------------------------ bounds ----
MaxSpans == 2          \* rows of table spans
MaxRefs == 2           \* rows of table span_refs

\* ------------------------------------------------------------ tables ----
\* services(id, service_name) and operations(id, operation_name): id = index
services == <<"a", "b">>
operations == <<"x", "y">>

ProcessIds == {"p1", "p2"}
Times == {1, 2}
Durations == {1, 2, 3}

NoError == "nil"
StorageError == "storage error"

\* The columns of a span row but its id (the id is the row's position).
SpanColumns(H, L, O, S, P, T, D) ==
    [trace_id_high : H, trace_id_low : L, operation_id : O, service_id : S,
     process_id : P, start_time : T, duration : D]

WithIds(t) ==
    [i \in DOMAIN t |->
        [id |-> i,
         trace_id_high |-> t[i].trace_id_high,
         trace_id_low |-> t[i].trace_id_low,
         operation_id |-> t[i].operation_id,
         service_id |-> t[i].service_id,
         process_id |-> t[i].process_id,
         start_time |-> t[i].start_time,
         duration |-> t[i].duration]]

SpanTables(F) == UNION {[1..n -> F] : n \in 0..MaxSpans}

\* span_refs(id, child_span_id): id is the referencing span, child_span_id the
\* referenced one.
RefTables(n) == UNION {[1..k -> [id : 1..n, child_span_id : 1..n]] : k \in 0..MaxRefs}

\* ------------------------------------------------------ whereBuilder ----
EmptyBuilder == [where |-> <<>>, params |-> <<>>]

\* where is the list of the fragments joined by AND
andWhere(builder, param, cond) ==
    [where |-> Append(builder.where, cond), params |-> Append(builder.params, param)]

\* One fragment of a WHERE clause on a span row joined to its service and
\* operation.
Holds(cond, param, row) ==
    CASE cond = "trace_id_low = ?" -> row.trace_id_low = param
      [] cond = "trace_id_high = ?" -> row.trace_id_high = param
      [] cond = "service.service_name = ?" -> services[row.service_id] = param
      [] cond = "operation.operation_name = ?" -> operations[row.operation_id] = param
      [] cond = "start_time >= ?" -> row.start_time >= param
      [] cond = "duration < ?" -> row.duration < param
      [] cond = "duration > ?" -> row.duration > param

Matches(builder, row) ==
    \A i \in 1..Len(builder.where) : Holds(builder.where[i], builder.params[i], row)

Select(spans, builder) == SelectSeq(spans, LAMBDA row : Matches(builder, row))

\* ---------------------------------------------------------- GetTrace ----
TraceIDs == [High : {0, 1}, Low : {0, 1}]

toModelSpan(span) ==
    [TraceID |-> [High |-> span.trace_id_high, Low |-> span.trace_id_low],
     SpanID |-> span.id,
     OperationName |-> operations[span.operation_id],
     StartTime |-> span.start_time,
     Duration |-> span.duration,
     ProcessID |-> span.process_id]

ProcessMapping(span) ==
    [ProcessID |-> span.process_id,
     Process |-> [ServiceName |-> services[span.service_id]]]

GetTraceWhere(traceID) ==
    LET b0 == EmptyBuilder
        b1 == IF traceID.Low > 0 THEN andWhere(b0, traceID.Low, "trace_id_low = ?") ELSE b0
        b2 == IF traceID.High > 0 THEN andWhere(b1, traceID.High, "trace_id_high = ?") ELSE b1
    IN  b2

GetTraceResult(spans) ==
    [Spans |-> [i \in 1..Len(spans) |-> toModelSpan(spans[i])],
     ProcessMap |-> [i \in 1..Len(spans) |-> ProcessMapping(spans[i])]]

\* ------------------------------------------------------ FindTraceIDs ----
Queries ==
    [ServiceName : {"", "a", "b"}, OperationName : {"", "x", "y"},
     StartTimeMin : {0, 2}, StartTimeMax : {0},
     DurationMin : {0, 2}, DurationMax : {0, 2},
     NumTraces : {0, 1}]

NoQuery ==
    [ServiceName |-> "", OperationName |-> "", StartTimeMin |-> 0, StartTimeMax |-> 0,
     DurationMin |-> 0, DurationMax |-> 0, NumTraces |-> 0]

\* buildTraceWhere without the fragment for the operation name
buildTraceWhereNoOperation(query) ==
    LET b0 == EmptyBuilder
        b1 == IF query.ServiceName /= ""
              THEN andWhere(b0, query.ServiceName, "service.service_name = ?") ELSE b0
        b3 == IF query.StartTimeMin > 0
              THEN andWhere(b1, query.StartTimeMin, "start_time >= ?") ELSE b1
        b4 == IF query.DurationMin > 0
              THEN andWhere(b3, query.DurationMin, "duration < ?") ELSE b3
        b5 == IF query.DurationMax > 0
              THEN andWhere(b4, query.DurationMax, "duration > ?") ELSE b4
    IN  b5

buildTraceWhere(query) ==
    LET b0 == EmptyBuilder
        b1 == IF query.ServiceName /= ""
              THEN andWhere(b0, query.ServiceName, "service.service_name = ?") ELSE b0
        b2 == IF query.OperationName /= ""
              THEN andWhere(b1, query.OperationName, "operation.operation_name = ?") ELSE b1
        b3 == IF query.StartTimeMin > 0
              THEN andWhere(b2, query.StartTimeMin, "start_time >= ?") ELSE b2
        b4 == IF query.DurationMin > 0
              THEN andWhere(b3, query.DurationMin, "duration < ?") ELSE b3
        b5 == IF query.DurationMax > 0
              THEN andWhere(b4, query.DurationMax, "duration > ?") ELSE b4
    IN  b5

RECURSIVE Distinct(_)
Distinct(s) ==
    IF s = <<>> THEN <<>>
    ELSE LET front == Distinct(SubSeq(s, 1, Len(s) - 1))
             last == s[Len(s)]
         IN  IF \E i \in 1..Len(front) : front[i] = last THEN front ELSE Append(front, last)

Limit(s, n) == IF Len(s) <= n THEN s ELSE SubSeq(s, 1, n)

TraceLimit(query) == IF query.NumTraces <= 0 THEN 10 ELSE query.NumTraces

FindTraceIDsRows(spans, query) ==
    LET rows == Select(spans, buildTraceWhere(query))
        ids == [i \in 1..Len(rows) |->
                   [Low |-> rows[i].trace_id_low, High |-> rows[i].trace_id_high]]
    IN  Limit(Distinct(ids), 100 * TraceLimit(query))

\* -------------------------------------------------------- FindTraces ----
Orderings(n) == {p \in [1..n -> 1..n] : \A i, j \in 1..n : i /= j => p[i] /= p[j]}

\* the select without its ORDER BY: the rows in the order of the table
StorageOrder(rows) == {rows}

\* ORDER BY start_time ASC: any order of the rows in which start_time never
\* decreases (rows of equal start_time come in any order).
OrderByStartTime(rows) ==
    {s \in {[i \in 1..Len(rows) |-> rows[p[i]]] : p \in Orderings(Len(rows))} :
        \A i \in 1..Len(s) - 1 : s[i].start_time <= s[i + 1].start_time}

LookupWhere(traceID) ==
    andWhere(andWhere(EmptyBuilder, traceID.Low, "trace_id_low = ?"),
             traceID.High, "trace_id_high = ?")

EmptyTrace == [Spans |-> <<>>, ProcessMap |-> <<>>]

RECURSIVE AddSpans(_, _)
AddSpans(g, rows) ==
    IF rows = <<>> THEN g
    ELSE LET span == Head(rows)
             modelSpan == toModelSpan(span)
             trace == IF modelSpan.TraceID \in DOMAIN g THEN g[modelSpan.TraceID] ELSE EmptyTrace
             added == [Spans |-> Append(trace.Spans, modelSpan),
                       ProcessMap |-> Append(trace.ProcessMap, ProcessMapping(span))]
             g1 == [k \in DOMAIN g \cup {modelSpan.TraceID} |->
                       IF k = modelSpan.TraceID THEN added ELSE g[k]]
         IN  AddSpans(g1, Tail(rows))

\* range over a Go map: the values in any order
MapValues(g) ==
    LET keys == DOMAIN g
        n == Cardinality(keys)
    IN  {[i \in 1..n |-> g[k[i]]] :
            k \in {f \in [1..n -> keys] : \A i, j \in 1..n : i /= j => f[i] /= f[j]}}

EmptyGrouping == [k \in {} |-> EmptyTrace]

\* --------------------------------------------------- GetDependencies ----
EndTimes == {1, 2}
Lookbacks == {0, 1}

\* The rows of span_refs joined to source_spans, source_service, child_spans
\* and child_service.
JoinedRefs(d) ==
    [i \in 1..Len(d.refs) |->
        LET source_spans == d.spans[d.refs[i].id]
            child_spans == d.spans[d.refs[i].child_span_id]
        IN  [parent |-> source_spans.service_id,
             parent_name |-> services[source_spans.service_id],
             child |-> child_spans.service_id,
             child_name |-> services[source_spans.service_id]]]

GetDependenciesLinks(d, endTs, lookback) ==
    LET joined == JoinedRefs(d)
        groups == {joined[i] : i \in 1..Len(joined)}
    IN  {[parent |-> g.parent, parent_name |-> g.parent_name,
          child |-> g.child, child_name |-> g.child_name,
          call_count |-> Cardinality({i \in 1..Len(joined) : joined[i] = g})] :
            g \in groups}

\* ------------------------------------------------------------- state ----
VARIABLES
    db,         \* [spans, refs]: the tables
    call,       \* the operation called last and its arguments
    pc,         \* "idle", "loop" (inside FindTraces' loop) or "done"
    ctxDone,    \* the caller has cancelled the context of the call in progress
    traceIDs,   \* FindTraces: the identifiers FindTraceIDs resolved
    idx,        \* FindTraces: the position of the loop in traceIDs
    grouping,   \* FindTraces: map of trace id to Trace
    issued,     \* storage queries the call has issued
    ret,        \* the value returned
    err         \* the error returned

vars == <<db, call, pc, ctxDone, traceIDs, idx, grouping, issued, ret, err>>

NoTraceID == [High |-> 0, Low |-> 0]

Call(op, traceID, query, endTs, lookback) ==
    [op |-> op, traceID |-> traceID, query |-> query, endTs |-> endTs, lookback |-> lookback]

InitReader ==
    /\ call = Call("none", NoTraceID, NoQuery, 0, 0)
    /\ pc = "idle"
    /\ ctxDone = FALSE
    /\ traceIDs = <<>>
    /\ idx = 1
    /\ grouping = EmptyGrouping
    /\ issued = 0
    /\ ret = <<>>
    /\ err = NoError

\* Traces: the spans differ in trace id, process and start time.
Init ==
    /\ \E t \in SpanTables(SpanColumns({0, 1}, {0, 1}, {1}, {1}, ProcessIds, Times, {1})) :
          db = [spans |-> WithIds(t), refs |-> <<>>]
    /\ InitReader

\* Criteria: the spans differ in trace id, operation, service and duration.
InitFind ==
    /\ \E t \in SpanTables(SpanColumns({0}, {1, 2}, {1, 2}, {1, 2}, {"p1"}, {1}, Durations)) :
          db = [spans |-> WithIds(t), refs |-> <<>>]
    /\ InitReader

\* Criteria on names: the spans differ in trace id, operation and service.
InitCriteria ==
    /\ \E t \in SpanTables(SpanColumns({0}, {1, 2}, {1, 2}, {1, 2}, {"p1"}, {1}, {1})) :
          db = [spans |-> WithIds(t), refs |-> <<>>]
    /\ InitReader

\* Dependencies: the spans differ in service and start time, and refer to
\* each other.
InitDeps ==
    /\ \E t \in SpanTables(SpanColumns({0}, {1}, {1}, {1, 2}, {"p1"}, Times, {1})) :
          \E r \in RefTables(Len(t)) :
              db = [spans |-> WithIds(t), refs |-> r]
    /\ InitReader

\* The reader keeps nothing from one call to the next: a behaviour is one call.
Idle == pc = "idle"

Returns(op, r, e, n) ==
    /\ call' = op
    /\ pc' = "done"
    /\ ctxDone' = FALSE
    /\ traceIDs' = <<>>
    /\ idx' = 1
    /\ grouping' = EmptyGrouping
    /\ issued' = n
    /\ ret' = r
    /\ err' = e
    /\ UNCHANGED db

GetTrace ==
    /\ Idle
    /\ \E traceID \in TraceIDs :
          LET op == Call("GetTrace", traceID, NoQuery, 0, 0) IN
          \/ Returns(op, GetTraceResult(Select(db.spans, GetTraceWhere(traceID))), NoError, 1)
          \/ Returns(op, GetTraceResult(<<>>), StorageError, 1)

FindTraceIDs ==
    /\ Idle
    /\ \E query \in Queries :
          LET op == Call("FindTraceIDs", NoTraceID, query, 0, 0) IN
          \/ Returns(op, FindTraceIDsRows(db.spans, query), NoError, 1)
          \/ Returns(op, <<>>, StorageError, 1)

GetDependencies ==
    /\ Idle
    /\ \E endTs \in EndTimes, lookback \in Lookbacks :
          LET op == Call("GetDependencies", NoTraceID, NoQuery, endTs, lookback) IN
          \/ Returns(op, GetDependenciesLinks(db, endTs, lookback), NoError, 1)
          \/ Returns(op, {}, StorageError, 1)

FindTraces ==
    /\ Idle
    /\ \E query \in Queries :
          LET op == Call("FindTraces", NoTraceID, query, 0, 0) IN
          \/ Returns(op, <<>>, StorageError, 1)
          \/ /\ call' = op
             /\ pc' = "loop"
             /\ ctxDone' = FALSE
             /\ traceIDs' = FindTraceIDsRows(db.spans, query)
             /\ idx' = 1
             /\ grouping' = EmptyGrouping
             /\ issued' = 1
             /\ ret' = <<>>
             /\ err' = NoError
             /\ UNCHANGED db

\* One turn of the loop over traceIDs: the spans of one trace are selected
\* and grouped, or the select fails and FindTraces returns.
FindTracesLookup ==
    /\ pc = "loop"
    /\ idx <= Len(traceIDs)
    /\ issued' = issued + 1
    /\ \/ /\ err' = StorageError
          /\ pc' = "done"
          /\ UNCHANGED <<idx, grouping>>
       \/ /\ \E rows \in OrderByStartTime(Select(db.spans, LookupWhere(traceIDs[idx]))) :
                grouping' = AddSpans(grouping, rows)
          /\ idx' = idx + 1
          /\ UNCHANGED <<err, pc>>
    /\ UNCHANGED <<db, call, ctxDone, traceIDs, ret>>

FindTracesReturn ==
    /\ pc = "loop"
    /\ idx > Len(traceIDs)
    /\ \E r \in MapValues(grouping) : ret' = r
    /\ pc' = "done"
    /\ UNCHANGED <<db, call, ctxDone, traceIDs, idx, grouping, issued, err>>

\* The caller cancels the context of the FindTraces call in progress.
Cancel ==
    /\ pc = "loop"
    /\ ~ctxDone
    /\ ctxDone' = TRUE
    /\ UNCHANGED <<db, call, pc, traceIDs, idx, grouping, issued, ret, err>>

Next == GetTrace \/ FindTraces \/ FindTracesLookup \/ FindTracesReturn \/ Cancel

NextFind == FindTraceIDs

NextDeps == GetDependencies

NextCriteria == FindTraceIDs \/ FindTraces \/ FindTracesLookup \/ FindTracesReturn \/ Cancel

Spec == Init /\ [][Next]_vars

SpecFind == InitFind /\ [][NextFind]_vars

SpecDeps == InitDeps /\ [][NextDeps]_vars

SpecCriteria == InitCriteria /\ [][NextCriteria]_vars

\* ------------------------------------------------------------ claims ----
Returned(op) == pc = "done" /\ call.op = op /\ err = NoError

SpansOf(traceID) == Select(db.spans, LookupWhere(traceID))

ProcessIdsOf(spans) == {spans[i].process_id : i \in 1..Len(spans)}

Range(s) == {s[i] : i \in 1..Len(s)}

\* C1: a trace of N spans with K distinct process identifiers is returned,
\* by GetTrace and by FindTraces, as N spans and a process map of K entries.
C1_ProcessMapPerProcess ==
    /\ (Returned("GetTrace") /\ call.traceID.High > 0 /\ call.traceID.Low > 0) =>
          /\ Len(ret.Spans) = Len(SpansOf(call.traceID))
          /\ Len(ret.ProcessMap) = Cardinality(ProcessIdsOf(SpansOf(call.traceID)))
    /\ Returned("FindTraces") =>
          \A i \in 1..Len(ret) :
              LET stored == SpansOf(ret[i].Spans[1].TraceID) IN
              /\ Len(ret[i].Spans) = Len(stored)
              /\ Len(ret[i].ProcessMap) = Cardinality(ProcessIdsOf(stored))

ServiceOf(spanId) == services[db.spans[spanId].service_id]

InWindow(spanId) ==
    /\ db.spans[spanId].start_time >= call.endTs - call.lookback
    /\ db.spans[spanId].start_time <= call.endTs

EdgesBetween(parentName, childName) ==
    {i \in 1..Len(db.refs) :
        /\ ServiceOf(db.refs[i].id) = parentName
        /\ ServiceOf(db.refs[i].child_span_id) = childName}

ServiceNames == Range(services)

\* C2: GetDependencies returns one link per pair (service of the referencing
\* span, service of the referenced span) with the number of edges between
\* spans of the two services (every span being inside the window).
C2_LinkPerServicePair ==
    (Returned("GetDependencies") /\ \A i \in 1..Len(db.spans) : InWindow(i)) =>
        {[parent |-> l.parent_name, child |-> l.child_name, callCount |-> l.call_count] :
            l \in ret}
        = {[parent |-> p, child |-> c, callCount |-> Cardinality(EdgesBetween(p, c))] :
            <<p, c>> \in {pc2 \in ServiceNames \X ServiceNames :
                             EdgesBetween(pc2[1], pc2[2]) /= {}}}

\* C3: an edge outside the window [endTs - lookback, endTs] adds nothing to a
\* call count: a link counts at most the edges with a span inside the window,
\* and there is no link when there is no such edge.
C3_OnlyEdgesInWindow ==
    Returned("GetDependencies") =>
        \A l \in ret :
            l.call_count <=
                Cardinality({i \in 1..Len(db.refs) :
                    /\ InWindow(db.refs[i].id) \/ InWindow(db.refs[i].child_span_id)
                    /\ db.spans[db.refs[i].id].service_id = l.parent
                    /\ db.spans[db.refs[i].child_span_id].service_id = l.child})

NoFilter(q) ==
    /\ q.ServiceName = ""
    /\ q.OperationName = ""
    /\ q.StartTimeMin = 0
    /\ q.StartTimeMax = 0
    /\ q.DurationMin = 0
    /\ q.DurationMax = 0

\* C4: with no filter set FindTraceIDs returns at most N identifiers, N being
\* numTraces when positive and 10 otherwise, and no identifier twice.
C4_AtMostNumTraces ==
    (Returned("FindTraceIDs") /\ NoFilter(call.query)) =>
        /\ Len(ret) <= (IF call.query.NumTraces > 0 THEN call.query.NumTraces ELSE 10)
        /\ \A i, j \in 1..Len(ret) : i /= j => ret[i] /= ret[j]

IdOf(row) == [Low |-> row.trace_id_low, High |-> row.trace_id_high]

MeetsOthers(q, row) ==
    /\ q.ServiceName /= "" => services[row.service_id] = q.ServiceName
    /\ q.OperationName /= "" => operations[row.operation_id] = q.OperationName
    /\ q.StartTimeMin > 0 => row.start_time >= q.StartTimeMin

DurationWithin(q, row) ==
    /\ q.DurationMin > 0 => row.duration >= q.DurationMin
    /\ q.DurationMax > 0 => row.duration <= q.DurationMax

\* C5: with durationMin and/or durationMax set, a trace is returned exactly
\* when one of its spans meets the other criteria and has a duration within
\* [durationMin, durationMax].
C5_DurationWithinBounds ==
    (Returned("FindTraceIDs") /\ (call.query.DurationMin > 0 \/ call.query.DurationMax > 0)) =>
        /\ \A i \in 1..Len(ret) :
              \E row \in Range(db.spans) :
                  IdOf(row) = ret[i] /\ MeetsOthers(call.query, row) /\ DurationWithin(call.query, row)
        /\ \A row \in Range(db.spans) :
              (MeetsOthers(call.query, row) /\ DurationWithin(call.query, row)) =>
                  IdOf(row) \in Range(ret)

\* The trace identifiers of the result of FindTraceIDs or FindTraces.
ResultIds ==
    IF call.op = "FindTraceIDs" THEN Range(ret)
    ELSE {ret[t].Spans[1].TraceID : t \in 1..Len(ret)}

\* The comparisons of one column to one parameter: none is an OR or a NOT.
PlainFragments ==
    {"service.service_name = ?", "operation.operation_name = ?", "start_time >= ?",
     "duration < ?", "duration > ?"}

\* C6: the criteria combine conjunctively, in FindTraceIDs and in FindTraces.
\* With serviceName and operationName both set, every trace returned has a
\* span of that service and that operation at once, so a trace matching on the
\* service alone is left out; with only serviceName set or nothing set, the
\* absent fields exclude nothing: every trace with a span of the service (every
\* trace, when no service is named) is returned; and the fragments built for
\* the criteria are plain comparisons joined by AND, never an OR or a NOT, the
\* one of a name being there exactly when the name is set.
C6_Conjunctive ==
    (Returned("FindTraceIDs") \/ Returned("FindTraces")) =>
        LET q == call.query
            where == buildTraceWhere(q).where
        IN
        /\ (q.ServiceName /= "" /\ q.OperationName /= "") =>
              \A id \in ResultIds :
                  \E row \in Range(db.spans) :
                      /\ IdOf(row) = id
                      /\ services[row.service_id] = q.ServiceName
                      /\ operations[row.operation_id] = q.OperationName
        /\ (NoFilter([q EXCEPT !.ServiceName = ""])) =>
              ResultIds = {IdOf(row) : row \in
                              {r \in Range(db.spans) :
                                  q.ServiceName /= "" => services[r.service_id] = q.ServiceName}}
        /\ Range(where) \subseteq PlainFragments
        /\ Len(where) = Cardinality(Range(where))
        /\ "service.service_name = ?" \in Range(where) <=> q.ServiceName /= ""
        /\ "operation.operation_name = ?" \in Range(where) <=> q.OperationName /= ""

\* C6 witness: FindTraces is called with both names set, returns a trace, and
\* leaves out a stored trace that has a span of the service but of another
\* operation.
C6_Witness ==
    /\ Returned("FindTraces")
    /\ call.query.ServiceName /= ""
    /\ call.query.OperationName /= ""
    /\ \E row \in Range(db.spans) :
          /\ services[row.service_id] = call.query.ServiceName
          /\ operations[row.operation_id] /= call.query.OperationName
          /\ IdOf(row) \notin ResultIds
    /\ ret /= <<>>

\* C7: in every trace FindTraces returns, a span that starts earlier comes
\* before a span that starts later.
C7_SpansByStartTime ==
    Returned("FindTraces") =>
        \A t \in 1..Len(ret) :
            \A i, j \in 1..Len(ret[t].Spans) :
                ret[t].Spans[i].StartTime < ret[t].Spans[j].StartTime => i < j

\* C7 witness: a returned trace holds two spans in the order of their start
\* times, the reverse of their order in the table.
C7_Witness ==
    /\ Returned("FindTraces")
    /\ \E t \in 1..Len(ret) :
          /\ Len(ret[t].Spans) = 2
          /\ ret[t].Spans[1].StartTime < ret[t].Spans[2].StartTime
          /\ ret[t].Spans[1].SpanID > ret[t].Spans[2].SpanID

\* C8: when the lookup of the k-th identifier fails, FindTraces returns the
\* storage error together with the traces assembled for the k-1 identifiers
\* before it, and issues no further lookup.
C8_PartialBatchReturned ==
    (pc = "done" /\ call.op = "FindTraces" /\ err = StorageError /\ issued >= 2) =>
        /\ issued = idx + 1
        /\ Range(ret) = {grouping[k] : k \in DOMAIN grouping}
        /\ Len(ret) = Cardinality(DOMAIN grouping)

\* C9: once the context of a FindTraces call is cancelled, the call starts no
\* further span query.
C9_NoQueryAfterCancel ==
    [][(ctxDone /\ pc = "loop") => issued' = issued]_vars

\* C10: every span GetTrace returns has the requested trace identifier, both
\* halves, also when a half is 0, and every stored span of it is returned.
C10_OnlyRequestedTrace ==
    Returned("GetTrace") =>
        /\ \A i \in 1..Len(ret.Spans) : ret.Spans[i].TraceID = call.traceID
        /\ \A row \in Range(SpansOf(call.traceID)) :
              \E i \in 1..Len(ret.Spans) : ret.Spans[i].SpanID = row.id

====
